---- MODULE Spec2Model ----
(***************************************************************************)
(* create_icon.py: create_microverse_icon() draws an alien head on a       *)
(* square canvas, saves it at seven sizes, and shells out to mkdir, cp and *)
(* iconutil to package the images as AppIcon.icns.                         *)
(*                                                                         *)
(* The program is one sequential procedure.  Each statement (or loop       *)
(* iteration) that has an effect is one action; pc names the statement     *)
(* about to run.                                                           *)
(***************************************************************************)
EXTENDS Integers, Sequences, FiniteSets, TLC

VARIABLES
    pc,            \* statement about to run ("done", "crashed" when over)
    size,          \* canvas side (line 17)
    i,             \* index of the loop being run (gradient, spots, sizes, cp)
    shapes,        \* shapes drawn on img so far: [what, box]
    rng,           \* state of the global random generator, per compared run
    rng0,          \* state of the global random generator at process start
    spots,         \* outcome of each spot-loop iteration, per compared run
    final_img,     \* dimensions of the composited image (NoImage before)
    fs,            \* working directory: path -> file content (NoFile: absent)
    dirs,          \* directories that exist in the working directory
    env0,          \* working directory at process start: [fs, dirs]
    icon_mapping,  \* the dict of line 153 (empty function before)
    log,           \* external effects in the order issued
    out            \* lines printed to stdout

vars == <<pc, size, i, shapes, rng, rng0, spots, final_img, fs, dirs, env0,
          icon_mapping, log, out>>

----------------------------------------------------------------------------
(* Bounds and program constants *)

\* The global generator may be in any of the states 0..MaxInitRng when the
\* script starts.
MaxInitRng == 2

BaseSize == 1024
Seed == 42
NumSpots == 20
GradientSteps == 10

sizes == <<16, 32, 64, 128, 256, 512, 1024>>

\* Two executions of the renderer are carried side by side so that their spot
\* patterns can be compared; the packaging state is that of execution 1.
Runs == {1, 2}

Range(f) == {f[x] : x \in DOMAIN f}

Abs(x) == IF x < 0 THEN -x ELSE x

----------------------------------------------------------------------------
(* Geometry, lines 27-103.  int(x * r) for a decimal ratio r = num/den and  *)
(* x >= 0 truncates the product; for every operand the renderer uses on     *)
(* canvases up to 2048 the double-precision product truncates to the same   *)
(* integer as the exact one.                                                *)

Trunc(x, num, den) == (x * num) \div den

head_width(sz) == Trunc(sz, 65, 100)
head_height(sz) == Trunc(sz, 80, 100)
head_x(sz) == (sz - head_width(sz)) \div 2
head_y(sz) == Trunc(sz, 10, 100)

HeadBox(sz) ==
    <<head_x(sz), head_y(sz),
      head_x(sz) + head_width(sz), head_y(sz) + head_height(sz)>>

GradientBox(sz, k) ==
    LET offset == k * 2
    IN  <<head_x(sz) - offset, head_y(sz) - offset,
          head_x(sz) + head_width(sz) + offset,
          head_y(sz) + head_height(sz) + offset>>

eye_width(sz) == Trunc(sz, 22, 100)
eye_height(sz) == Trunc(sz, 26, 100)
eye_y(sz) == head_y(sz) + Trunc(head_height(sz), 22, 100)

left_eye_x(sz) == head_x(sz) + Trunc(head_width(sz), 15, 100)

\* Faulty variant: the right eye offset taken from the canvas, not the head.
RightEyeXFromCanvas(sz) == head_x(sz) + Trunc(sz, 63, 100)

right_eye_x(sz) == head_x(sz) + Trunc(head_width(sz), 63, 100)

EyeBox(sz, ex) == <<ex, eye_y(sz), ex + eye_width(sz), eye_y(sz) + eye_height(sz)>>

highlight_size(sz) == Trunc(eye_width(sz), 30, 100)

HighlightBox(sz, ex) ==
    LET hx == ex + Trunc(eye_width(sz), 15, 100)
        hy == eye_y(sz) + Trunc(eye_height(sz), 15, 100)
    IN  <<hx, hy, hx + highlight_size(sz), hy + highlight_size(sz)>>

pupil_size(sz) == Trunc(eye_width(sz), 40, 100)

PupilBox(sz, ex) ==
    <<ex + (eye_width(sz) - pupil_size(sz)) \div 2,
      eye_y(sz) + (eye_height(sz) - pupil_size(sz)) \div 2,
      ex + (eye_width(sz) + pupil_size(sz)) \div 2,
      eye_y(sz) + (eye_height(sz) + pupil_size(sz)) \div 2>>

nose_y(sz) == eye_y(sz) + eye_height(sz) + Trunc(sz, 6, 100)
nose_x(sz) == head_x(sz) + head_width(sz) \div 2
dot_size(sz) == Trunc(sz, 25, 1000)

LeftNoseBox(sz) ==
    <<nose_x(sz) - dot_size(sz) * 3, nose_y(sz),
      nose_x(sz) - dot_size(sz) * 2, nose_y(sz) + dot_size(sz)>>

RightNoseBox(sz) ==
    <<nose_x(sz) + dot_size(sz) * 2, nose_y(sz),
      nose_x(sz) + dot_size(sz) * 3, nose_y(sz) + dot_size(sz)>>

mouth_y(sz) == nose_y(sz) + Trunc(sz, 8, 100)
mouth_width(sz) == Trunc(sz, 20, 100)
mouth_x(sz) == head_x(sz) + (head_width(sz) - mouth_width(sz)) \div 2

MouthBox(sz) ==
    <<mouth_x(sz), mouth_y(sz) - Trunc(sz, 3, 100),
      mouth_x(sz) + mouth_width(sz), mouth_y(sz) + Trunc(sz, 8, 100)>>

GlowBox(sz) ==
    <<head_x(sz) - 20, head_y(sz) - 20,
      head_x(sz) + head_width(sz) + 20, head_y(sz) + head_height(sz) + 20>>

Shape(what, box) == [what |-> what, box |-> box]

----------------------------------------------------------------------------
(* The global random generator (module random, lines 106-121).  The        *)
(* Mersenne Twister is library code; it is modelled by a deterministic      *)
(* generator over 4096 states: seed(a) puts it in a state that depends on a *)
(* alone, and every draw advances the state and returns a value that        *)
(* depends on the state alone.  random() returns state/4096 in [0, 1).      *)

\* Faulty variant: the seed call left out.
RandomSeedKeepsState(state, a) == state

\* random.seed(a), line 107
RandomSeed(state, a) == a % 4096

\* The state after one draw.
RandomAdvance(state) == (1229 * state + 1) % 4096

\* int(random.uniform(lo, hi) * x), lo and hi in hundredths; u is the state
\* after the draw: uniform(lo, hi) = lo + (hi - lo) * random().
UniformTimes(u, lo, hi, x) == ((lo * 4096 + (hi - lo) * u) * x) \div (100 * 4096)

\* random.randint(lo, hi) from the state after the draw.
RandInt(u, lo, hi) == lo + ((hi - lo + 1) * u) \div 4096

\* "too close to" an eye, lines 113-118; eye_width/2 is a float division, so
\* both sides are doubled.
NearEye(sz, ex, sx, sy) ==
    /\ Abs(2 * sx - (2 * ex + eye_width(sz))) < 2 * eye_width(sz)
    /\ Abs(2 * sy - (2 * eye_y(sz) + eye_height(sz))) < 2 * eye_height(sz)

\* One iteration of the spot loop (lines 109-123) from generator state s:
\* the generator state it leaves and what it drew.
SpotIteration(sz, k, s) ==
    LET s1 == RandomAdvance(s)
        spot_x == head_x(sz) + UniformTimes(s1, 10, 90, head_width(sz))
        s2 == RandomAdvance(s1)
        spot_y == head_y(sz) + UniformTimes(s2, 15, 85, head_height(sz))
        s3 == RandomAdvance(s2)
        spot_size == UniformTimes(s3, 2, 4, sz)
        s4 == RandomAdvance(s3)
        opacity == RandInt(s4, 80, 150)
    IN  IF \/ NearEye(sz, left_eye_x(sz), spot_x, spot_y)
           \/ NearEye(sz, right_eye_x(sz), spot_x, spot_y)
        THEN [rng |-> s2,
              spot |-> [i |-> k, drawn |-> FALSE, x |-> spot_x, y |-> spot_y,
                        size |-> 0, opacity |-> 0]]
        ELSE [rng |-> s4,
              spot |-> [i |-> k, drawn |-> TRUE, x |-> spot_x, y |-> spot_y,
                        size |-> spot_size, opacity |-> opacity]]

----------------------------------------------------------------------------
(* Files *)

NoImage == [w |-> 0, h |-> 0]
NoFile == [w |-> 0, h |-> 0, by |-> "none"]

\* A file holding a w x h image (an .icns container has w = h = 0), written
\* by this run ("run") or left by an earlier one ("old").
File(w, h, by) == [w |-> w, h |-> h, by |-> by]

\* f'icon_{s}x{s}.png', line 141
IconName(s) == "icon_" \o ToString(s) \o "x" \o ToString(s) \o ".png"

\* Faulty variant: the unresized image saved.
ResizeKeepsSource(img, s) == img

\* Image.resize((s, s)), line 140
Resize(img, s) == [w |-> s, h |-> s]

StagingDir == "AppIcon.iconset"

InDir(dir, name) == dir \o "/" \o name

Cp(src, dst) == [src |-> src, dir |-> StagingDir, dst |-> dst]

\* Faulty variant: one copy per entry of the built icon_mapping.
CopyCmdsFromMapping ==
    <<Cp("icon_16x16.png", "icon_16x16.png"),
      Cp("icon_32x32.png", "icon_32x32.png"),
      Cp("icon_64x64.png", "icon_32x32@2x.png"),
      Cp("icon_128x128.png", "icon_128x128.png"),
      Cp("icon_256x256.png", "icon_256x256.png"),
      Cp("icon_512x512.png", "icon_512x512.png"),
      Cp("icon_1024x1024.png", "icon_512x512@2x.png")>>

\* Faulty variant: every @2x file copied from the 1x image.
CopyCmdsSameSource ==
    <<Cp("icon_16x16.png", "icon_16x16.png"),
      Cp("icon_16x16.png", "icon_16x16@2x.png"),
      Cp("icon_32x32.png", "icon_32x32.png"),
      Cp("icon_32x32.png", "icon_32x32@2x.png"),
      Cp("icon_128x128.png", "icon_128x128.png"),
      Cp("icon_128x128.png", "icon_128x128@2x.png"),
      Cp("icon_256x256.png", "icon_256x256.png"),
      Cp("icon_256x256.png", "icon_256x256@2x.png"),
      Cp("icon_512x512.png", "icon_512x512.png"),
      Cp("icon_512x512.png", "icon_512x512@2x.png")>>

\* The ten cp commands, lines 167-176
CopyCmds ==
    <<Cp("icon_16x16.png", "icon_16x16.png"),
      Cp("icon_32x32.png", "icon_16x16@2x.png"),
      Cp("icon_32x32.png", "icon_32x32.png"),
      Cp("icon_64x64.png", "icon_32x32@2x.png"),
      Cp("icon_128x128.png", "icon_128x128.png"),
      Cp("icon_256x256.png", "icon_128x128@2x.png"),
      Cp("icon_256x256.png", "icon_256x256.png"),
      Cp("icon_512x512.png", "icon_256x256@2x.png"),
      Cp("icon_512x512.png", "icon_512x512.png"),
      Cp("icon_1024x1024.png", "icon_512x512@2x.png")>>

MainName == "AppIcon.png"
IcnsName == "AppIcon.icns"

SizeNames == {IconName(sizes[k]) : k \in DOMAIN sizes}
StagingNames == {CopyCmds[k].dst : k \in DOMAIN CopyCmds}

AllPaths ==
    SizeNames \cup {MainName, IcnsName}
        \cup {CopyCmds[k].src : k \in DOMAIN CopyCmds}
        \cup {InDir(StagingDir, n) : n \in StagingNames}

\* The dict literal of lines 153-164 as written, key: value in order
MappingLiteral ==
    <<<<16, "icon_16x16.png">>,
      <<32, "icon_16x16@2x.png">>,
      <<32, "icon_32x32.png">>,
      <<64, "icon_32x32@2x.png">>,
      <<128, "icon_128x128.png">>,
      <<256, "icon_128x128@2x.png">>,
      <<256, "icon_256x256.png">>,
      <<512, "icon_256x256@2x.png">>,
      <<512, "icon_512x512.png">>,
      <<1024, "icon_512x512@2x.png">>>>

EmptyDict == [k \in {} |-> ""]

\* Faulty variant: an existing key keeps its first value.
DictSetKeepFirst(d, key, value) ==
    IF key \in DOMAIN d THEN d
    ELSE [k \in DOMAIN d \cup {key} |-> IF k = key THEN value ELSE d[k]]

\* d[key] = value: a new key is added, an existing one overwritten.
DictSet(d, key, value) ==
    [k \in DOMAIN d \cup {key} |-> IF k = key THEN value ELSE d[k]]

\* A dict display evaluates its items left to right, each one set in turn.
RECURSIVE DictLiteral(_, _)
DictLiteral(items, n) ==
    IF n = 0 THEN EmptyDict
    ELSE DictSet(DictLiteral(items, n - 1), items[n][1], items[n][2])

----------------------------------------------------------------------------
(* The working directory at process start: clean, or as an earlier run of   *)
(* the script left it (complete, or stopped by failures part-way).          *)

\* What the copies 1..n of an earlier run left in the staging directory.
PriorStaging(n, p) ==
    IF \E k \in 1..n : InDir(CopyCmds[k].dir, CopyCmds[k].dst) = p
    THEN LET k == CHOOSE k \in 1..n : InDir(CopyCmds[k].dir, CopyCmds[k].dst) = p
             s == CHOOSE s \in Range(sizes) : IconName(s) = CopyCmds[k].src
         IN  File(s, s, "old")
    ELSE NoFile

PriorFs(nCopies, packaged) ==
    [p \in AllPaths |->
        IF \E s \in Range(sizes) : IconName(s) = p
        THEN LET s == CHOOSE s \in Range(sizes) : IconName(s) = p
             IN  File(s, s, "old")
        ELSE IF p = MainName THEN File(BaseSize, BaseSize, "old")
        ELSE IF p = IcnsName
             THEN IF packaged THEN File(0, 0, "old") ELSE NoFile
        ELSE PriorStaging(nCopies, p)]

CleanEnv == [fs |-> [p \in AllPaths |-> NoFile], dirs |-> {}]
PriorFullEnv == [fs |-> PriorFs(Len(CopyCmds), TRUE), dirs |-> {StagingDir}]
PriorPartialEnv == [fs |-> PriorFs(Len(CopyCmds) \div 2, FALSE), dirs |-> {StagingDir}]

Envs == {CleanEnv, PriorFullEnv, PriorPartialEnv}

----------------------------------------------------------------------------
(* Control *)

\* Faulty variant: the staging directory created up front.
ProgramMkdirFirst ==
    <<"mkdir", "new_img", "gradient", "head", "left_eye", "right_eye",
      "highlights", "pupils", "nose", "mouth", "seed", "spots", "glow",
      "save_sizes", "save_main", "mapping", "copy", "iconutil", "finish">>

\* Faulty variant: the icon compiler run before the copies.
ProgramPackBeforeCopy ==
    <<"new_img", "gradient", "head", "left_eye", "right_eye", "highlights",
      "pupils", "nose", "mouth", "seed", "spots", "glow", "save_sizes",
      "save_main", "mkdir", "mapping", "iconutil", "copy", "finish">>

\* Statements in the order the procedure runs them.
Program ==
    <<"new_img", "gradient", "head", "left_eye", "right_eye", "highlights",
      "pupils", "nose", "mouth", "seed", "spots", "glow", "save_sizes",
      "save_main", "mkdir", "mapping", "copy", "iconutil", "finish">>

NextPc(p) ==
    LET k == CHOOSE k \in DOMAIN Program : Program[k] = p
    IN  IF k = Len(Program) THEN "done" ELSE Program[k + 1]

\* Statements that call into the image library and may raise.
LibrarySteps ==
    {"new_img", "gradient", "head", "left_eye", "right_eye", "highlights",
     "pupils", "nose", "mouth", "glow", "save_sizes", "save_main"}

\* Faulty variant: a nonzero exit status raises (as subprocess.check_call).
AfterSystemChecked(status, next) == IF status # 0 THEN "crashed" ELSE next

\* os.system returns the exit status; the statement discards it.
AfterSystem(status, next) == next

\* Exit statuses a command can end with: 0, or 1 when the environment fails
\* it; 1 only when what it needs is missing.
MkdirOutcomes == IF StagingDir \in dirs THEN {0} ELSE {0, 1}

CpOutcomes(c) ==
    IF fs[c.src] = NoFile \/ c.dir \notin dirs THEN {1} ELSE {0, 1}

IconutilOutcomes == IF StagingDir \in dirs THEN {0, 1} ELSE {1}

Effect(op, src, dst, status) ==
    [op |-> op, src |-> src, dst |-> dst, status |-> status]

----------------------------------------------------------------------------
(* Initial states *)

InitCommon ==
    /\ pc = Program[1]
    /\ i = 0
    /\ shapes = <<>>
    /\ rng0 = rng
    /\ spots = [r \in Runs |-> <<>>]
    /\ final_img = NoImage
    /\ fs = env0.fs
    /\ dirs = env0.dirs
    /\ icon_mapping = EmptyDict
    /\ log = <<>>
    /\ out = <<>>

Init ==
    /\ size = BaseSize
    /\ rng \in [Runs -> 0..MaxInitRng]
    /\ env0 \in Envs
    /\ InitCommon

\* The renderer's geometry on each canvas size of the size list.
GeomInit ==
    /\ size \in Range(sizes)
    /\ rng = [r \in Runs |-> 0]
    /\ env0 = CleanEnv
    /\ InitCommon

----------------------------------------------------------------------------
(* The renderer, lines 16-136 *)

Draw(step, newShapes) ==
    /\ pc = step
    /\ shapes' = shapes \o newShapes
    /\ pc' = NextPc(step)
    /\ UNCHANGED <<size, i, rng, rng0, spots, final_img, fs, dirs, env0,
                   icon_mapping, log, out>>

\* line 18-19
NewImage == Draw("new_img", <<>>)

\* lines 34-39, one iteration
Gradient ==
    /\ pc = "gradient"
    /\ shapes' = Append(shapes, Shape("gradient", GradientBox(size, i)))
    /\ IF i + 1 < GradientSteps
       THEN pc' = pc /\ i' = i + 1
       ELSE pc' = NextPc(pc) /\ i' = 0
    /\ UNCHANGED <<size, rng, rng0, spots, final_img, fs, dirs, env0,
                   icon_mapping, log, out>>

\* line 42
HeadEllipse == Draw("head", <<Shape("head", HeadBox(size))>>)

\* line 52
LeftEye == Draw("left_eye", <<Shape("left_eye", EyeBox(size, left_eye_x(size)))>>)

\* line 57
RightEye == Draw("right_eye", <<Shape("right_eye", EyeBox(size, right_eye_x(size)))>>)

\* lines 61-70
Highlights ==
    Draw("highlights",
         <<Shape("left_highlight", HighlightBox(size, left_eye_x(size))),
           Shape("right_highlight", HighlightBox(size, right_eye_x(size)))>>)

\* lines 73-84
Pupils ==
    Draw("pupils",
         <<Shape("left_pupil", PupilBox(size, left_eye_x(size))),
           Shape("right_pupil", PupilBox(size, right_eye_x(size)))>>)

\* lines 87-93
Nose ==
    Draw("nose",
         <<Shape("left_nose", LeftNoseBox(size)),
           Shape("right_nose", RightNoseBox(size))>>)

\* lines 96-103
Mouth == Draw("mouth", <<Shape("mouth", MouthBox(size))>>)

\* lines 106-107
SeedRandom ==
    /\ pc = "seed"
    /\ rng' = [r \in Runs |-> RandomSeed(rng[r], Seed)]
    /\ pc' = NextPc(pc)
    /\ UNCHANGED <<size, i, shapes, rng0, spots, final_img, fs, dirs, env0,
                   icon_mapping, log, out>>

\* lines 108-123, one iteration
Spot ==
    /\ pc = "spots"
    /\ LET it == [r \in Runs |-> SpotIteration(size, i, rng[r])]
       IN  /\ rng' = [r \in Runs |-> it[r].rng]
           /\ spots' = [r \in Runs |-> Append(spots[r], it[r].spot)]
           /\ shapes' = IF it[1].spot.drawn
                        THEN Append(shapes,
                                    Shape("spot",
                                          <<it[1].spot.x, it[1].spot.y,
                                            it[1].spot.x + it[1].spot.size,
                                            it[1].spot.y + it[1].spot.size>>))
                        ELSE shapes
    /\ IF i + 1 < NumSpots
       THEN pc' = pc /\ i' = i + 1
       ELSE pc' = NextPc(pc) /\ i' = 0
    /\ UNCHANGED <<size, rng0, final_img, fs, dirs, env0, icon_mapping, log, out>>

\* lines 126-136: the glow layer and the two alpha composites
Glow ==
    /\ pc = "glow"
    /\ final_img' = [w |-> size, h |-> size]
    /\ pc' = NextPc(pc)
    /\ UNCHANGED <<size, i, shapes, rng, rng0, spots, fs, dirs, env0,
                   icon_mapping, log, out>>

\* An exception raised by the image library (allocation, drawing, resizing,
\* writing a file) is not caught: the process ends with a traceback.
Fault ==
    /\ pc \in LibrarySteps
    /\ pc' = "crashed"
    /\ UNCHANGED <<size, i, shapes, rng, rng0, spots, final_img, fs, dirs,
                   env0, icon_mapping, log, out>>

----------------------------------------------------------------------------
(* Saving and packaging, lines 138-181 *)

\* lines 139-141, one iteration (i counts from 0, sizes from 1)
SaveSize ==
    /\ pc = "save_sizes"
    /\ LET s == sizes[i + 1]
           resized == Resize(final_img, s)
       IN  /\ fs' = [fs EXCEPT ![IconName(s)] = File(resized.w, resized.h, "run")]
           /\ log' = Append(log, Effect("save", "", IconName(s), 0))
    /\ IF i + 1 < Len(sizes)
       THEN pc' = pc /\ i' = i + 1
       ELSE pc' = NextPc(pc) /\ i' = 0
    /\ UNCHANGED <<size, shapes, rng, rng0, spots, final_img, dirs, env0,
                   icon_mapping, out>>

\* lines 144-147
SaveMain ==
    /\ pc = "save_main"
    /\ fs' = [fs EXCEPT ![MainName] = File(final_img.w, final_img.h, "run")]
    /\ log' = Append(log, Effect("save", "", MainName, 0))
    /\ out' = out \o <<"Icon files created successfully!", "Creating .icns file...">>
    /\ pc' = NextPc(pc)
    /\ UNCHANGED <<size, i, shapes, rng, rng0, spots, final_img, dirs, env0,
                   icon_mapping>>

\* line 150: os.system('mkdir -p AppIcon.iconset')
Mkdir ==
    /\ pc = "mkdir"
    /\ \E status \in MkdirOutcomes :
        /\ dirs' = IF status = 0 THEN dirs \cup {StagingDir} ELSE dirs
        /\ log' = Append(log, Effect("mkdir", "", StagingDir, status))
        /\ pc' = AfterSystem(status, NextPc(pc))
    /\ UNCHANGED <<size, i, shapes, rng, rng0, spots, final_img, fs, env0,
                   icon_mapping, out>>

\* lines 153-164
BuildMapping ==
    /\ pc = "mapping"
    /\ icon_mapping' = DictLiteral(MappingLiteral, Len(MappingLiteral))
    /\ pc' = NextPc(pc)
    /\ UNCHANGED <<size, i, shapes, rng, rng0, spots, final_img, fs, dirs,
                   env0, log, out>>

\* lines 167-176: the (i+1)-th os.system('cp ...')
Copy ==
    /\ pc = "copy"
    /\ LET c == CopyCmds[i + 1]
           target == InDir(c.dir, c.dst)
       IN  \E status \in CpOutcomes(c) :
            /\ fs' = IF status = 0 THEN [fs EXCEPT ![target] = fs[c.src]] ELSE fs
            /\ log' = Append(log, Effect("cp", c.src, target, status))
            /\ LET next == IF i + 1 < Len(CopyCmds) THEN pc ELSE NextPc(pc)
               IN  pc' = AfterSystem(status, next)
    /\ i' = IF i + 1 < Len(CopyCmds) THEN i + 1 ELSE 0
    /\ UNCHANGED <<size, shapes, rng, rng0, spots, final_img, dirs, env0,
                   icon_mapping, out>>

\* line 179: os.system('iconutil -c icns AppIcon.iconset -o AppIcon.icns')
Iconutil ==
    /\ pc = "iconutil"
    /\ \E status \in IconutilOutcomes :
        /\ fs' = IF status = 0 THEN [fs EXCEPT ![IcnsName] = File(0, 0, "run")] ELSE fs
        /\ log' = Append(log, Effect("iconutil", StagingDir, IcnsName, status))
        /\ pc' = AfterSystem(status, NextPc(pc))
    /\ UNCHANGED <<size, i, shapes, rng, rng0, spots, final_img, dirs, env0,
                   icon_mapping, out>>

\* line 181
Finish ==
    /\ pc = "finish"
    /\ out' = Append(out, "AppIcon.icns created successfully!")
    /\ pc' = NextPc(pc)
    /\ UNCHANGED <<size, i, shapes, rng, rng0, spots, final_img, fs, dirs,
                   env0, icon_mapping, log>>

Next ==
    \/ NewImage
    \/ Gradient
    \/ HeadEllipse
    \/ LeftEye
    \/ RightEye
    \/ Highlights
    \/ Pupils
    \/ Nose
    \/ Mouth
    \/ SeedRandom
    \/ Spot
    \/ Glow
    \/ Fault
    \/ SaveSize
    \/ SaveMain
    \/ Mkdir
    \/ BuildMapping
    \/ Copy
    \/ Iconutil
    \/ Finish

Spec == Init /\ [][Next]_vars

\* The interpreter runs the procedure to its end: whenever a statement can
\* run, one eventually does.
FairSpec == Spec /\ WF_vars(Next)

GeomSpec == GeomInit /\ [][Next]_vars

----------------------------------------------------------------------------
(* Vocabulary of the properties *)

\* The place of each statement in the program.
PcIndex == [p \in Range(Program) |-> CHOOSE k \in DOMAIN Program : Program[k] = p]

\* The statement p has run to its end and the process has not crashed.
Past(p) ==
    \/ pc = "done"
    \/ pc \in DOMAIN PcIndex /\ PcIndex[pc] > PcIndex[p]

Present(paths) == {p \in paths : fs[p] # NoFile}

LogOf(op) == {k \in DOMAIN log : log[k].op = op}

NoSaveYet == LogOf("save") = {}

CommandFailed == \E k \in DOMAIN log : log[k].status # 0

AllCopiesOk ==
    /\ Cardinality(LogOf("cp")) = 10
    /\ \A k \in LogOf("cp") : log[k].status = 0

\* The names the platform icon compiler expects in an iconset, and the pixel
\* size each declares: icon_SxS.png holds S pixels, icon_SxS@2x.png 2*S.
IconsetBases == {16, 32, 128, 256, 512}

IconsetName(S, retina) ==
    "icon_" \o ToString(S) \o "x" \o ToString(S)
        \o (IF retina THEN "@2x" ELSE "") \o ".png"

IconsetPixels(S, retina) == IF retina THEN 2 * S ELSE S

IconsetNames == {IconsetName(S, r) : S \in IconsetBases, r \in BOOLEAN}

RequestedSizes == {16, 32, 64, 128, 256, 512, 1024}

\* icon_<N>x<N>.png for each requested N
RequestedName == [N \in RequestedSizes |-> IconName(N)]

----------------------------------------------------------------------------
\* C1: every size-coded file icon_<N>x<N>.png the run has written holds an
\* image N wide and N high, and once the save loop is over all seven sizes
\* 16..1024 have been written.
C1_SavedDimensionsMatchName ==
    /\ \A N \in RequestedSizes :
        LET f == fs[RequestedName[N]]
        IN  f.by = "run" => f.w = N /\ f.h = N
    /\ Past("save_sizes") =>
        \A N \in RequestedSizes : fs[RequestedName[N]].by = "run"
    /\ \A p \in SizeNames :
        fs[p].by = "run" => p \in Range(RequestedName)

C1_Witness ==
    /\ pc = "save_main"
    /\ \A N \in RequestedSizes : fs[RequestedName[N]] = File(N, N, "run")

\* C2: when all ten copy commands succeeded, the staging directory holds
\* exactly the ten iconset names, each a copy of the image this run resized
\* to the pixel size its name declares.
C2_StagingMatchesNames ==
    (Past("copy") /\ AllCopiesOk) =>
        /\ StagingDir \in dirs
        /\ Present({InDir(StagingDir, n) : n \in StagingNames})
               = {InDir(StagingDir, n) : n \in IconsetNames}
        /\ Cardinality(Present({InDir(StagingDir, n) : n \in StagingNames})) = 10
        /\ \A S \in IconsetBases, r \in BOOLEAN :
            fs[InDir(StagingDir, IconsetName(S, r))]
                = File(IconsetPixels(S, r), IconsetPixels(S, r), "run")

C2_Witness ==
    /\ pc = "iconutil"
    /\ AllCopiesOk
    /\ env0 = PriorPartialEnv

FinalDirectory ==
    /\ dirs = {StagingDir}
    /\ Present(AllPaths)
           = Range(RequestedName)
                 \cup {MainName, IcnsName}
                 \cup {InDir(StagingDir, n) : n \in IconsetNames}
    /\ Cardinality(Present(SizeNames)) = 7
    /\ \A p \in Present(AllPaths) : fs[p].by = "run"

\* C3: a run on a clean working directory in which no step fails reaches its
\* end, and the directory then holds the seven size-coded PNGs, AppIcon.png,
\* the staging directory with its ten files and AppIcon.icns, written by
\* this run, and nothing else.
C3_CleanRunCompletes ==
    /\ [](pc = "done" /\ env0 = CleanEnv /\ ~CommandFailed => FinalDirectory)
    /\ env0 = CleanEnv => <>(pc = "done" \/ pc = "crashed" \/ CommandFailed)

C3_Witness ==
    /\ pc = "done"
    /\ env0 = CleanEnv
    /\ ~CommandFailed
    /\ fs[IcnsName] = File(0, 0, "run")

PackagingCommands ==
    <<StagingDir>>
        \o [k \in DOMAIN CopyCmds |-> InDir(CopyCmds[k].dir, CopyCmds[k].dst)]
        \o <<IcnsName>>

IsCommand(e) == e.op # "save"

IssuedCommands == SelectSeq(log, IsCommand)

\* C4: a failing command of the packaging phase never ends the run: the run
\* goes on, issues mkdir, the ten copies and the icon compiler in that
\* order, and ends by printing "AppIcon.icns created successfully!", with or
\* without AppIcon.icns.
C4_CommandFailureIgnored ==
    /\ CommandFailed => pc # "crashed"
    /\ \A k \in DOMAIN IssuedCommands :
        /\ k <= Len(PackagingCommands)
        /\ IssuedCommands[k].dst = PackagingCommands[k]
    /\ pc = "done" =>
        /\ Len(IssuedCommands) = Len(PackagingCommands)
        /\ out[Len(out)] = "AppIcon.icns created successfully!"

C4_Witness ==
    /\ pc = "done"
    /\ \E k \in LogOf("mkdir") : log[k].status # 0
    /\ fs[IcnsName] = NoFile
    /\ out[Len(out)] = "AppIcon.icns created successfully!"

\* C5: any failure, that of an external packaging command included, ends the
\* process at the failing step: the failing command is the last effect and
\* the process has crashed.
C5_FailureTerminates ==
    \A k \in DOMAIN log :
        log[k].status # 0 => pc = "crashed" /\ k = Len(log)

FaceFeatures ==
    {"left_eye", "right_eye", "left_highlight", "right_highlight",
     "left_pupil", "right_pupil", "left_nose", "right_nose", "mouth"}

Inside(box, outer) ==
    /\ outer[1] <= box[1] /\ box[1] <= box[3] /\ box[3] <= outer[3]
    /\ outer[2] <= box[2] /\ box[2] <= box[4] /\ box[4] <= outer[4]

\* C6: on every canvas size of the size list, the boxes of both eyes, their
\* highlights and pupils, both nose dots and the mouth arc lie inside the
\* bounding box of the head ellipse.
C6_FeaturesInsideHead ==
    \A k \in DOMAIN shapes :
        shapes[k].what \in FaceFeatures =>
            \E h \in DOMAIN shapes :
                /\ shapes[h].what = "head"
                /\ shapes[h].box = <<head_x(size), head_y(size),
                                     head_x(size) + head_width(size),
                                     head_y(size) + head_height(size)>>
                /\ Inside(shapes[k].box, shapes[h].box)

C6_Witness ==
    /\ size = 16
    /\ FaceFeatures \subseteq {shapes[k].what : k \in DOMAIN shapes}

\* C7: two executions of the renderer draw the same spots and skip the same
\* iterations, whatever state the global generator was in when each began.
C7_SpotsDeterministic ==
    \A r1 \in Runs, r2 \in Runs : spots[r1] = spots[r2]

C7_Witness ==
    /\ pc = "glow"
    /\ rng0[1] # rng0[2]
    /\ Len(spots[1]) = NumSpots
    /\ \E k \in DOMAIN spots[1] : spots[1][k].drawn
    /\ \E k \in DOMAIN spots[1] : ~spots[1][k].drawn

CopiedNames ==
    {n \in StagingNames :
        \E k \in LogOf("cp") :
            log[k].status = 0 /\ log[k].dst = InDir(StagingDir, n)}

\* C8 as stated: the destination names written into the staging directory
\* are the values icon_mapping holds after construction.
C8_CopiesFollowMapping ==
    (pc = "done" /\ AllCopiesOk) => CopiedNames = Range(icon_mapping)

LastListedAt(key) ==
    LET last == CHOOSE k \in DOMAIN MappingLiteral :
                    /\ MappingLiteral[k][1] = key
                    /\ \A j \in DOMAIN MappingLiteral :
                        MappingLiteral[j][1] = key => j <= k
    IN  MappingLiteral[last][2]

\* For each key of the literal, the filename of its last item.
LastListed ==
    [key \in {MappingLiteral[k][1] : k \in DOMAIN MappingLiteral} |-> LastListedAt(key)]

\* C8 amended: icon_mapping holds for each key the last filename listed for
\* it, but the copies do not read it: when all succeed they write all ten
\* listed filenames, more than the table's values.
C8_MappingUnused ==
    /\ Past("mapping") =>
        /\ icon_mapping = LastListed
    /\ (pc = "done" /\ AllCopiesOk) =>
        /\ CopiedNames = {MappingLiteral[k][2] : k \in DOMAIN MappingLiteral}
        /\ Range(icon_mapping) \subseteq CopiedNames
        /\ Range(icon_mapping) # CopiedNames

C8_Witness ==
    /\ pc = "done"
    /\ AllCopiesOk
    /\ Cardinality(Range(icon_mapping)) = 7
    /\ Cardinality(CopiedNames) = 10

\* C9 as stated: until the first save, no file or directory is created and
\* the global random generator keeps the state it had at process start.
C9_NothingGlobalChanges ==
    NoSaveYet => fs = env0.fs /\ dirs = env0.dirs /\ rng[1] = rng0[1]

\* C9 amended: until the first save, no file or directory is created (the
\* global random generator is re-seeded and advanced meanwhile).
C9_NoFileBeforeSave ==
    NoSaveYet => fs = env0.fs /\ dirs = env0.dirs

C9_Witness ==
    /\ pc = "save_sizes"
    /\ NoSaveYet
    /\ rng[1] # rng0[1]
    /\ fs = env0.fs
    /\ dirs = env0.dirs

IsSave(e) == e.op = "save"

\* The files of section 6 in the order of the claim: ascending size, then
\* the full-resolution image.
SavesInOrder ==
    <<IconName(16), IconName(32), IconName(64), IconName(128), IconName(256),
      IconName(512), IconName(1024), MainName>>

First(S) == CHOOSE k \in S : \A j \in S : k <= j
Last(S) == CHOOSE k \in S : \A j \in S : j <= k

\* C10: the external effects are issued in one order: the seven size-coded
\* saves in ascending size, then AppIcon.png, then mkdir, then the copies,
\* each reading a file this run saved earlier, then the icon compiler, once,
\* after all ten copies.
C10_EffectOrder ==
    LET saves == LogOf("save")
        commands == DOMAIN log \ saves
        mkdirs == LogOf("mkdir")
        cps == LogOf("cp")
        packs == LogOf("iconutil")
        saved == SelectSeq(log, IsSave)
    IN  /\ Len(saved) <= Len(SavesInOrder)
        /\ \A k \in DOMAIN saved : saved[k].dst = SavesInOrder[k]
        /\ commands # {} =>
            /\ Len(saved) = Len(SavesInOrder)
            /\ Last(saves) < First(commands)
            /\ mkdirs = {First(commands)}
        /\ \A k \in cps :
            /\ \E j \in saves : j < k /\ log[j].dst = log[k].src
            /\ fs[log[k].src].by = "run"
        /\ packs # {} =>
            /\ Cardinality(packs) = 1
            /\ Cardinality(cps) = 10
            /\ Last(cps) < First(packs)
        /\ pc = "done" => packs # {}

C10_Witness ==
    /\ pc = "done"
    /\ Len(log) = 20
    /\ CommandFailed

====
